---- MODULE Spec2Model ----
(***************************************************************************)
(* Model of src/data/utils_dataset.py: crop_field, build_dataset and       *)
(* build_dataset_noTS.                                                     *)
(*                                                                         *)
(* A call of one of the three functions is a run of the state machine:     *)
(* Init draws the function called and its arguments, the actions are the   *)
(* successive steps of the function body.  Files are read when the code    *)
(* reads them; what a file holds is drawn at that moment and kept in the   *)
(* state (indexes_path, cluster_path, mask).                               *)
(*                                                                         *)
(* Conventions.                                                            *)
(*  - A timestamp is a record [year, month] (all timestamps are month      *)
(*    starts).                                                             *)
(*  - A DataFrame is [index, columns, cells]; cells is a function on the   *)
(*    pairs <<timestamp, column>> that hold a value: a pair of             *)
(*    index x columns outside DOMAIN cells is NaN.                         *)
(*  - A gridded field is [longitude, latitude, lon360, seed].  longitude   *)
(*    is the sequence of [lon, cell]: lon is the coordinate label, cell    *)
(*    is the longitude the column had in the file (it identifies the grid  *)
(*    point after the labels are rewritten).  latitude is stored North to  *)
(*    South, as the slice(lat2, lat1) of crop_field expects.  lon360 says  *)
(*    whether the longitude coordinate was re-expressed in 0..360.         *)
(***************************************************************************)
EXTENDS Integers, Sequences, FiniteSets, TLC

VARIABLES call, basin, first_year, last_year, deseasonalize, detrend,
          pc, err, box, date_range, df_indeces, df_residual_indeces,
          indexes_path, cluster_path, dataset_cluster, dataset, reads,
          var, ds, mask, target, ret, i, stl

vars == <<call, basin, first_year, last_year, deseasonalize, detrend,
          pc, err, box, date_range, df_indeces, df_residual_indeces,
          indexes_path, cluster_path, dataset_cluster, dataset, reads,
          var, ds, mask, target, ret, i, stl>>

----------------------------------------------------------------------------
(* Bounds of the model *)

\* first_year and last_year range over BaseYear .. BaseYear + MaxSpan
MaxSpan == 1
\* the tcg field of the year files is one of these
Seeds == {0, 1}
\* the decomposition computes one of these component families
StlFamilies == {0, 1}

BaseYear == 2000
Years == BaseYear .. (BaseYear + MaxSpan)

\* a defective index row holds only its first ShortLen month cells
ShortLen == 6
\* the month a defective cluster file lacks, in BaseYear
GapMonth == 3

\* longitudes a field may have on its axis, and its latitudes North to South
LonGrid == {-180, -75, -50, 50, 120, 180}
LatAxis == <<60, 20, -20>>
\* bounds crop_field is called with
BoxLons == {-180, -100, -75, -70, 0, 35, 45, 100, 135, 180}
BoxLats == {<<0, 40>>, <<-40, 0>>}

BasinIds == {"NWP", "NEP", "NA", "NI", "SP", "SI", "GLB"}
\* "XX" stands for every id that is none of the seven
BasinArgs == BasinIds \cup {"XX"}

index_variables == <<"nino34", "soi">>
cluster_variables == <<"sst", "mslp">>

NoFrame == [index |-> <<>>, columns |-> <<>>, cells |-> <<>>]
NoField == [longitude |-> <<>>, latitude |-> <<>>, lon360 |-> FALSE, seed |-> 0]

----------------------------------------------------------------------------
(* Timestamps and pd.date_range(..., freq='MS') *)

Timestamp(y, m) == [year |-> y, month |-> m]

\* a < b on timestamps
Before(a, b) == a.year < b.year \/ (a.year = b.year /\ a.month < b.month)

\* a MonthBegin that does not roll the month over at the end of the year
MonthBeginBad(t) == IF t.month = 12 THEN Timestamp(t.year + 1, 0)
                    ELSE Timestamp(t.year, t.month + 1)
MonthBegin(t) == IF t.month = 12 THEN Timestamp(t.year + 1, 1)
                 ELSE Timestamp(t.year, t.month + 1)

RECURSIVE RangeFrom(_, _)
RangeFrom(t, end) == IF Before(end, t) THEN <<>>
                     ELSE <<t>> \o RangeFrom(MonthBegin(t), end)

\* pd.date_range(start=f'{first}-01-01', end=f'{last}-12-01', freq='MS'):
\* every month start from start to end, both included; empty when end < start
pd_date_range(first, last) == RangeFrom(Timestamp(first, 1), Timestamp(last, 12))

Range(s) == {s[k] : k \in 1..Len(s)}

----------------------------------------------------------------------------
(* crop_field *)

\* the condition of line 28 without its two 'touches the meridian' cases
CrossingNoTouch(lon1, lon2) == lon1 <= 180 /\ lon2 >= -180 /\ lon1 > lon2
\* the condition of line 28
Crossing(lon1, lon2) ==
    (lon1 <= 180 /\ lon2 >= -180 /\ lon1 > lon2) \/ lon1 = -180 \/ lon2 = 180

\* the longitude coordinate left in -180..180
ToLon360Id(lons) == lons
\* ds.coords['longitude'] = (ds.longitude + 360) % 360
ToLon360(lons) == [k \in 1..Len(lons) |->
                     [lon |-> (lons[k].lon + 360) % 360, cell |-> lons[k].cell]]

\* x after every element whose label is <= x's (a stable insertion)
InsertSorted(s, x) ==
    LET n == Cardinality({k \in 1..Len(s) : s[k].lon <= x.lon})
    IN SubSeq(s, 1, n) \o <<x>> \o SubSeq(s, n + 1, Len(s))

RECURSIVE sortby(_)
sortby(s) == IF s = <<>> THEN <<>>
             ELSE InsertSorted(sortby(SubSeq(s, 1, Len(s) - 1)), s[Len(s)])

\* .sel(longitude=slice(a, b)) on an ascending index: the labels from the
\* first one >= a to the last one <= b; nothing when a > b
SelLongitude(lons, a, b) ==
    LET start == Cardinality({k \in 1..Len(lons) : lons[k].lon < a})
        stop  == Cardinality({k \in 1..Len(lons) : lons[k].lon <= b})
    IN IF stop > start THEN SubSeq(lons, start + 1, stop) ELSE <<>>

\* .sel(latitude=slice(a, b)) on a descending index: the labels from the
\* first one <= a to the last one >= b
SelLatitude(lats, a, b) ==
    LET start == Cardinality({k \in 1..Len(lats) : lats[k] > a})
        stop  == Cardinality({k \in 1..Len(lats) : lats[k] >= b})
    IN IF stop > start THEN SubSeq(lats, start + 1, stop) ELSE <<>>

crop_field(v, lon1, lon2, lat1, lat2) ==
    LET cross == Crossing(lon1, lon2)
        lons  == IF cross THEN sortby(ToLon360(v.longitude)) ELSE v.longitude
        e     == IF cross /\ lon2 < 0 THEN lon2 + 360 ELSE lon2
        w     == IF cross /\ lon1 < 0 THEN lon1 + 360 ELSE lon1
    IN [longitude |-> SelLongitude(lons, w, e),
        latitude  |-> SelLatitude(v.latitude, lat2, lat1),
        lon360    |-> (v.lon360 \/ cross),
        seed      |-> v.seed]

\* the grid points of a field, by the longitude they had in the file
Points(f) == {<<f.longitude[k].cell, f.latitude[j]>> :
                 k \in 1..Len(f.longitude), j \in 1..Len(f.latitude)}

\* a field read from a file: longitudes ascending in -180..180
RECURSIVE AscSeq(_)
AscSeq(S) == IF S = {} THEN <<>>
             ELSE LET x == CHOOSE y \in S : \A z \in S : y <= z
                  IN <<x>> \o AscSeq(S \ {x})
FieldOn(lonset, sd) ==
    [longitude |-> [k \in 1..Cardinality(lonset) |->
                      [lon |-> AscSeq(lonset)[k], cell |-> AscSeq(lonset)[k]]],
     latitude  |-> LatAxis,
     lon360    |-> FALSE,
     seed      |-> sd]

----------------------------------------------------------------------------
(* The basin tables of the two builders; <<>> stands for the ValueError *)

BasinBox(b) ==
    IF b = "NWP" THEN <<100, 180, 0, 40>>
    ELSE IF b = "NEP" THEN <<-180, -75, 0, 40>>
    ELSE IF b = "NA" THEN <<-100, 0, 0, 40>>
    ELSE IF b = "NI" THEN <<45, 100, 0, 40>>
    ELSE IF b = "SP" THEN <<135, -70, -40, 0>>
    ELSE IF b = "SI" THEN <<35, 135, -40, 0>>
    ELSE IF b = "GLB" THEN <<-181, 181, -40, 40>>
    ELSE <<>>

\* a table that falls back to the full globe for an unknown id
BasinBox_noTSDefault(b) ==
    IF b \in {"NWP", "NEP", "NA", "NI", "SP", "SI"} THEN BasinBox(b)
    ELSE <<-181, 181, -40, 40>>
BasinBox_noTS(b) ==
    IF b = "NWP" THEN <<100, 180, 0, 40>>
    ELSE IF b = "NEP" THEN <<-180, -75, 0, 40>>
    ELSE IF b = "NA" THEN <<-100, 0, 0, 40>>
    ELSE IF b = "NI" THEN <<45, 100, 0, 40>>
    ELSE IF b = "SP" THEN <<135, -70, -40, 0>>
    ELSE IF b = "SI" THEN <<35, 135, -40, 0>>
    ELSE IF b = "GLB" THEN <<-181, 181, -40, 40>>
    ELSE <<>>

----------------------------------------------------------------------------
(* DataFrames and Series *)

\* pd.DataFrame(index=index, columns=columns): every cell NaN
EmptyFrame(index, columns) == [index |-> index, columns |-> columns, cells |-> <<>>]

IsNull(df, t, col) == <<t, col>> \notin DOMAIN df.cells

RECURSIVE AscTs(_)
AscTs(S) == IF S = {} THEN <<>>
            ELSE LET x == CHOOSE y \in S : \A z \in S : y = z \/ Before(y, z)
                 IN <<x>> \o AscTs(S \ {x})

\* pd.concat([a, b], axis=1, join='inner'): only the rows both frames have
pd_concatInner(a, b) ==
    LET keep == Range(a.index) \cap Range(b.index)
        both == a.cells @@ b.cells
    IN [index   |-> AscTs(keep),
        columns |-> a.columns \o b.columns,
        cells   |-> [p \in {q \in DOMAIN both : q[1] \in keep} |-> both[p]]]
\* pd.concat([a, b], axis=1): the default join is outer, the rows are the
\* union of the two indexes and a cell one frame lacks is NaN
pd_concat(a, b) ==
    [index   |-> IF a.index = b.index THEN a.index
                 ELSE AscTs(Range(a.index) \cup Range(b.index)),
     columns |-> a.columns \o b.columns,
     cells   |-> a.cells @@ b.cells]

\* df[df.index.isin(date_range)]
Isin(df, dr) ==
    [index   |-> SelectSeq(df.index, LAMBDA t : t \in Range(dr)),
     columns |-> df.columns,
     cells   |-> [p \in {q \in DOMAIN df.cells : q[1] \in Range(dr)} |-> df.cells[p]]]

\* df[col] as a Series: the function timestamp -> value on the non-NaN rows
Column(df, col) ==
    [t \in {u \in Range(df.index) : ~IsNull(df, u, col)} |-> df.cells[<<t, col>>]]

\* a - b on two Series: aligned on the index
SeriesMinus(a, b) == [t \in (DOMAIN a) \cap (DOMAIN b) |-> a[t] - b[t]]

\* dataset['month'] = dataset.index.month
WithMonth(df) ==
    [index   |-> df.index,
     columns |-> Append(df.columns, "month"),
     cells   |-> df.cells @@ [p \in {<<t, "month">> : t \in Range(df.index)} |-> p[1].month]]

----------------------------------------------------------------------------
(* What the files hold *)

\* the years a source file has rows for: one more than any call asks for
FileYears == (BaseYear - 1) .. (BaseYear + MaxSpan)

\* the value of an index in the month m of the year y
IndexVal(name, y, m) ==
    (IF name = index_variables[1] THEN 0 ELSE 500) + (y - BaseYear) * 12 + m

\* pd.read_table(filename, sep='\s+', header=None): column 0 is the year,
\* columns 1..12 the months; the model keeps the table as year -> month cells.
\* A row with fewer fields than the first row is padded with NaN: it is kept
\* as the sequence of the cells it has.  Every file has the full row of
\* BaseYear - 1, so the table has its 13 columns.
FullIndexFile(name) == [y \in FileYears |-> [m \in 1..12 |-> IndexVal(name, y, m)]]
IndexFiles(name) ==
    {FullIndexFile(name)}
    \cup {[y \in FileYears \ {BaseYear} |-> FullIndexFile(name)[y]]}
    \cup {[FullIndexFile(name) EXCEPT ![BaseYear] = SubSeq(@, 1, ShortLen)]}

\* data[(data[0] == year)][month].values: the month cells of the rows of year
\* ({} stands for the NaN of a padded cell)
MonthValues(data, year, month) ==
    IF year \notin DOMAIN data THEN <<>>
    ELSE IF month > Len(data[year]) THEN <<{}>>
    ELSE <<{data[year][month]}>>

\* the loop of lines 69-73 on one column: the rows are filled in order up
\* to the first one whose year has no row (.values[0] raises IndexError)
FirstBadRow(data, dr) ==
    LET bad == {r \in 1..Len(dr) : MonthValues(data, dr[r].year, dr[r].month) = <<>>}
    IN IF bad = {} THEN Len(dr) + 1 ELSE CHOOSE r \in bad : \A q \in bad : r <= q

FillColumn(df, col, data) ==
    LET n      == FirstBadRow(data, df.index)
        stored == {r \in 1..(n - 1) :
                     MonthValues(data, df.index[r].year, df.index[r].month)[1] # {}}
    IN [df EXCEPT !.cells = @ @@
          [p \in {<<df.index[r], col>> : r \in stored} |->
              data[p[1].year][p[1].month]]]

\* pd.read_csv('averages_{var}.csv', index_col=0, parse_dates=True): one row
\* per month, one value column
ClusterVal(v, t) ==
    (IF v = cluster_variables[1] THEN 0 ELSE 500) + (t.year - BaseYear) * 12 + t.month
FileMonths == {Timestamp(y, m) : y \in FileYears, m \in 1..12}
ClusterFrame(v, months) ==
    [index   |-> AscTs(months),
     columns |-> <<v>>,
     cells   |-> [p \in {<<t, v>> : t \in months} |-> ClusterVal(v, p[1])]]
ClusterFiles(v) ==
    {ClusterFrame(v, FileMonths),
     ClusterFrame(v, FileMonths \ {Timestamp(BaseYear, GapMonth)})}

\* the tcg count of a year file at a grid point
TcgCount(sd, t, lon, lat) ==
    (t.month + (t.year - BaseYear) + (lon + 180) + (lat + 20) * (sd + 1)) % 3

\* the cells where a mask file is 1
FullGrid == {<<lon, LatAxis[j]>> : lon \in LonGrid, j \in 1..Len(LatAxis)}
MaskFiles == {FullGrid, {p \in FullGrid : p[1] # -75}}

RECURSIVE SumOver(_, _, _)
SumOver(P, sd, t) ==
    IF P = {} THEN 0
    ELSE LET p == CHOOSE q \in P : TRUE
         IN TcgCount(sd, t, p[1], p[2]) + SumOver(P \ {p}, sd, t)

\* tcg_ds.tcg.sum(dim=['latitude', 'longitude']) on the calendar: the NaN
\* cells where() leaves are skipped
SpatialSum(P, sd, dr) == [t \in Range(dr) |-> SumOver(P, sd, t)]

\* STL(series).fit(): the decomposition is the library's, a function of the
\* series; k is the component family the library computes (the variable stl),
\* with resid = series - trend - seasonal
StlTrend(k, t) == k * (t.year - BaseYear + 1)
StlSeasonal(k, t) == k * ((t.month % 4) - 1)
STL(series, k) ==
    [trend    |-> [t \in DOMAIN series |-> StlTrend(k, t)],
     seasonal |-> [t \in DOMAIN series |-> StlSeasonal(k, t)],
     resid    |-> [t \in DOMAIN series |-> series[t] - StlTrend(k, t) - StlSeasonal(k, t)]]

----------------------------------------------------------------------------
(* Initial states: one call, with its arguments *)

Idle == /\ pc = "start" /\ err = "none" /\ date_range = <<>>
        /\ df_indeces = NoFrame /\ df_residual_indeces = NoFrame
        /\ indexes_path = <<>> /\ cluster_path = <<>>
        /\ dataset_cluster = NoFrame /\ dataset = NoFrame /\ reads = <<>>
        /\ ds = NoField /\ mask = {} /\ target = <<>> /\ ret = <<>> /\ i = 1

InitCrop ==
    /\ call = "crop_field"
    /\ \E lonset \in (SUBSET LonGrid) \ {{}} : var = FieldOn(lonset, 0)
    /\ \E lon1 \in BoxLons, lon2 \in BoxLons, lats \in BoxLats :
          box = <<lon1, lon2, lats[1], lats[2]>>
    /\ basin = "" /\ first_year = BaseYear /\ last_year = BaseYear
    /\ deseasonalize = FALSE /\ detrend = FALSE /\ stl = 0
    /\ Idle

InitBuild ==
    /\ call \in {"build_dataset", "build_dataset_noTS"}
    /\ basin \in BasinArgs
    /\ first_year \in Years /\ last_year \in Years
    /\ deseasonalize \in (IF call = "build_dataset" THEN BOOLEAN ELSE {FALSE})
    /\ detrend \in (IF call = "build_dataset" THEN BOOLEAN ELSE {FALSE})
    /\ stl \in (IF call = "build_dataset" /\ ~deseasonalize /\ ~detrend
                THEN {0} ELSE StlFamilies)
    /\ var = NoField /\ box = <<>>
    /\ Idle

Init == InitCrop \/ InitBuild

Building == call \in {"build_dataset", "build_dataset_noTS"}

----------------------------------------------------------------------------
(* crop_field called on its own *)

CallCrop ==
    /\ call = "crop_field" /\ pc = "start"
    /\ ds' = crop_field(var, box[1], box[2], box[3], box[4])
    /\ pc' = "done"
    /\ UNCHANGED <<call, basin, first_year, last_year, deseasonalize, detrend,
                   err, box, date_range, df_indeces, df_residual_indeces,
                   indexes_path, cluster_path, dataset_cluster, dataset,
                   reads, var, mask, target, ret, i, stl>>

----------------------------------------------------------------------------
(* The steps of build_dataset and build_dataset_noTS *)

args == <<call, basin, first_year, last_year, deseasonalize, detrend, stl>>

\* lines 45-61 and 136-152
ResolveBasin ==
    /\ Building /\ pc = "start"
    /\ box' = IF call = "build_dataset" THEN BasinBox(basin) ELSE BasinBox_noTS(basin)
    /\ IF box' = <<>>
       THEN pc' = "error" /\ err' = "ValueError"
       ELSE pc' = "calendar" /\ err' = err
    /\ UNCHANGED <<args, date_range, df_indeces, df_residual_indeces,
                   indexes_path, cluster_path, dataset_cluster, dataset,
                   reads, var, ds, mask, target, ret, i>>

\* lines 64-65 and 155-157
BuildCalendar ==
    /\ Building /\ pc = "calendar"
    /\ date_range' = pd_date_range(first_year, last_year)
    /\ df_indeces' = EmptyFrame(date_range', index_variables)
    /\ df_residual_indeces' = IF call = "build_dataset_noTS"
                              THEN EmptyFrame(date_range', index_variables)
                              ELSE df_residual_indeces
    /\ pc' = "index" /\ i' = 1
    /\ UNCHANGED <<args, err, box, indexes_path, cluster_path, dataset_cluster,
                   dataset, reads, var, ds, mask, target, ret>>

\* one pass of the loop of lines 66-73 and 158-167.  In build_dataset_noTS
\* the column is then decomposed; what STL does with a column that is empty
\* or holds a NaN is the library's: it raises, or its residual is NaN
LoadIndex ==
    /\ Building /\ pc = "index"
    /\ LET name == index_variables[i]
       IN \E data \in IndexFiles(name) :
          LET filled == FillColumn(df_indeces, name, data)
              bad    == FirstBadRow(data, date_range) <= Len(date_range)
              series == Column(filled, name)
              whole  == date_range # <<>> /\ DOMAIN series = Range(date_range)
              noTS   == call = "build_dataset_noTS"
          IN \E raises \in (IF noTS /\ ~bad /\ ~whole THEN BOOLEAN ELSE {FALSE}) :
             /\ reads' = Append(reads, <<"index", name>>)
             /\ indexes_path' = indexes_path @@ (name :> data)
             /\ df_indeces' = filled
             /\ IF bad
                THEN /\ pc' = "error" /\ err' = "IndexError"
                     /\ UNCHANGED <<df_residual_indeces, i>>
                ELSE IF raises
                THEN /\ pc' = "error" /\ err' = "STLError"
                     /\ UNCHANGED <<df_residual_indeces, i>>
                ELSE /\ df_residual_indeces' =
                          IF noTS /\ whole
                          THEN [df_residual_indeces EXCEPT !.cells = @ @@
                                  [p \in {<<t, name>> : t \in Range(date_range)} |->
                                      STL(series, stl).resid[p[1]]]]
                          ELSE df_residual_indeces
                     /\ err' = err
                     /\ IF i < Len(index_variables)
                        THEN pc' = pc /\ i' = i + 1
                        ELSE pc' = "cluster" /\ i' = 1
    /\ UNCHANGED <<args, box, date_range, cluster_path, dataset_cluster,
                   dataset, var, ds, mask, target, ret>>

\* one pass of the loop of lines 76-85 and 170-179
LoadCluster ==
    /\ Building /\ pc = "cluster"
    /\ LET v == cluster_variables[i]
       IN \E file \in ClusterFiles(v) :
          /\ reads' = Append(reads, <<"cluster", v>>)
          /\ cluster_path' = cluster_path @@ (v :> Range(file.index))
          /\ dataset_cluster' = IF i = 1 THEN Isin(file, date_range)
                                ELSE pd_concat(dataset_cluster, Isin(file, date_range))
    /\ IF i < Len(cluster_variables)
       THEN pc' = pc /\ i' = i + 1
       ELSE pc' = "merge" /\ i' = 1
    /\ UNCHANGED <<args, err, box, date_range, df_indeces, df_residual_indeces,
                   indexes_path, dataset, var, ds, mask, target, ret>>

\* lines 88-102 and 182-196, with month_col at its default; the audit of
\* lines 95-102 only prints
Merge ==
    /\ Building /\ pc = "merge"
    /\ dataset' = WithMonth(pd_concat(dataset_cluster,
                     IF call = "build_dataset" THEN df_indeces
                     ELSE df_residual_indeces))
    /\ pc' = "target"
    /\ UNCHANGED <<args, err, box, date_range, df_indeces, df_residual_indeces,
                   indexes_path, cluster_path, dataset_cluster, reads, var, ds,
                   mask, target, ret, i>>

\* lines 107-114: the field that is summed, and whether the mask is read
NeedsMask(b) == b = "NEP" \/ b = "NA"
TcgDs(b, f, bx) ==
    IF b = "NEP" \/ b = "NA" THEN crop_field(f, bx[1], bx[2], bx[3], bx[4])
    ELSE IF b # "GLB" THEN crop_field(f, bx[1], bx[2], bx[3], bx[4])
    ELSE f

\* lines 201-208
NeedsMaskNEPOnly(b) == b = "NEP"
NeedsMask_noTS(b) == b = "NEP" \/ b = "NA"
TcgDs_noTS(b, f, bx) ==
    IF b = "NEP" \/ b = "NA" THEN crop_field(f, bx[1], bx[2], bx[3], bx[4])
    ELSE IF b # "GLB" THEN crop_field(f, bx[1], bx[2], bx[3], bx[4])
    ELSE f

\* the year files are opened in year order
YearReads(first, last) ==
    IF last < first THEN <<>>
    ELSE [k \in 1..(last - first + 1) |-> <<"target", first + k - 1>>]

\* lines 105-116 and 199-210.  xr.concat of no dataset raises ValueError.
\* where(mask == 1) is taken on the grid points themselves.
BuildTarget ==
    /\ Building /\ pc = "target"
    /\ IF last_year < first_year
       THEN /\ pc' = "error" /\ err' = "ValueError"
            /\ UNCHANGED <<reads, var, ds, mask, target>>
       ELSE LET need == IF call = "build_dataset" THEN NeedsMask(basin)
                        ELSE NeedsMask_noTS(basin)
            IN \E sd \in Seeds, m \in (IF need THEN MaskFiles ELSE {{}}) :
               /\ var' = FieldOn(LonGrid, sd)
               /\ ds' = IF call = "build_dataset" THEN TcgDs(basin, var', box)
                        ELSE TcgDs_noTS(basin, var', box)
               /\ mask' = m
               /\ reads' = reads \o YearReads(first_year, last_year)
                           \o (IF need THEN <<<<"mask", basin>>>> ELSE <<>>)
               /\ target' = SpatialSum(IF need THEN Points(ds') \cap m ELSE Points(ds'),
                                       sd, date_range)
               /\ pc' = "decompose" /\ err' = err
    /\ UNCHANGED <<args, box, date_range, df_indeces, df_residual_indeces,
                   indexes_path, cluster_path, dataset_cluster, dataset, ret, i>>

\* the two tests of lines 119 and 125 in the other order
ReturnedDetrendFirst(data, tgt, des, det, k) ==
    IF det THEN <<data, tgt, SeriesMinus(tgt, STL(tgt, k).trend), STL(tgt, k).trend>>
    ELSE IF des THEN <<data, tgt, SeriesMinus(tgt, STL(tgt, k).seasonal), STL(tgt, k).seasonal>>
    ELSE <<data, tgt>>
\* lines 119-132
Returned(data, tgt, des, det, k) ==
    IF des THEN <<data, tgt, SeriesMinus(tgt, STL(tgt, k).seasonal), STL(tgt, k).seasonal>>
    ELSE IF det THEN <<data, tgt, SeriesMinus(tgt, STL(tgt, k).trend), STL(tgt, k).trend>>
    ELSE <<data, tgt>>

\* lines 213-218
Returned_noTS(data, tgt, k) ==
    <<data, STL(tgt, k).resid, STL(tgt, k).trend, STL(tgt, k).seasonal>>

Return ==
    /\ Building /\ pc = "decompose"
    /\ ret' = IF call = "build_dataset"
              THEN Returned(dataset, target, deseasonalize, detrend, stl)
              ELSE Returned_noTS(dataset, target, stl)
    /\ pc' = "done"
    /\ UNCHANGED <<args, err, box, date_range, df_indeces, df_residual_indeces,
                   indexes_path, cluster_path, dataset_cluster, dataset, reads,
                   var, ds, mask, target, i>>

Next == \/ CallCrop
        \/ ResolveBasin
        \/ BuildCalendar
        \/ LoadIndex
        \/ LoadCluster
        \/ Merge
        \/ BuildTarget
        \/ Return

Spec == Init /\ [][Next]_vars

----------------------------------------------------------------------------
(* Properties *)

\* crop_field has returned: on its own, or inside a builder's target step
Cropped == \/ call = "crop_field" /\ pc = "done"
           \/ Building /\ pc \in {"decompose", "done"} /\ basin # "GLB"

\* the calendar of a builder has been built
CalendarBuilt == Building /\ box # <<>> /\ pc \notin {"start", "calendar"}

\* the merged feature table has been built
Merged == Building /\ pc \in {"target", "decompose", "done"}

\* the target step has run to its end
TargetBuilt == Building /\ pc \in {"decompose", "done"}

\* the labels a longitude goes by: the antimeridian is both -180 and 180
Labels(lon) == IF lon = 180 \/ lon = -180 THEN {-180, 180} ELSE {lon}

\* a grid point lies within the box (lon1, lon2, lat1, lat2)
InBox(p, b) ==
    /\ b[3] <= p[2] /\ p[2] <= b[4]
    /\ \E l \in Labels(p[1]) :
          IF b[1] <= b[2] THEN b[1] <= l /\ l <= b[2]
          ELSE l >= b[1] \/ l <= b[2]

\* C1: for every grid and every box with lon1, lon2 in [-180, 180] and
\* lat1 <= lat2, crop_field returns exactly the grid points within the box
\* (longitude in [lon1, lon2], or in [lon1, 180] or [-180, lon2] when
\* lon1 > lon2), boxes with a bound at -180 or 180 and the other bound of the
\* opposite sign included.  A point on the antimeridian is counted under
\* either of its labels, so that only a point lost or gained off the
\* antimeridian contradicts the statement.
C1_CropExact ==
    (call = "crop_field" /\ pc = "done")
        => Points(ds) = {p \in Points(var) : InBox(p, box)}

\* C2: with the SP box (135, -70, -40, 0) the antimeridian handling is
\* triggered, and a grid point is retained iff its latitude is in [-40, 0]
\* and (lon + 360) mod 360 is in [135, 290]; a point at longitude -75 is
\* retained and a point at longitude 50 is excluded.
C2_SPCrop ==
    (Cropped /\ box = <<135, -70, -40, 0>>)
        => /\ ds.lon360
           /\ Points(ds) = {p \in Points(var) :
                              /\ -40 <= p[2] /\ p[2] <= 0
                              /\ 135 <= (p[1] + 360) % 360
                              /\ (p[1] + 360) % 360 <= 290}
           /\ \A p \in Points(var) :
                 /\ (p[1] = -75 /\ p[2] = -20) => p \in Points(ds)
                 /\ p[1] = 50 => p \notin Points(ds)
C2_Witness ==
    /\ Cropped /\ box = <<135, -70, -40, 0>>
    /\ <<-75, -20>> \in Points(ds)
    /\ <<50, -20>> \in Points(var) \ Points(ds)

\* C3 as stated: with the NWP box (100, 180, 0, 40) only points with
\* longitude in [100, 180] and latitude in [0, 40] are returned and the
\* longitude coordinate is not re-expressed in 0..360.
C3_NoConversion ==
    (Cropped /\ box = <<100, 180, 0, 40>>)
        => /\ ~ds.lon360
           /\ \A k \in 1..Len(ds.longitude) :
                 100 <= ds.longitude[k].lon /\ ds.longitude[k].lon <= 180
           /\ \A j \in 1..Len(ds.latitude) :
                 0 <= ds.latitude[j] /\ ds.latitude[j] <= 40

\* C3 amended: with the NWP box (100, 180, 0, 40) the eastern bound is 180,
\* so the conversion IS triggered: the longitude coordinate is re-expressed
\* in 0..360, the bounds stay 100 and 180, and the points returned are
\* exactly those with latitude in [0, 40] and (lon + 360) mod 360 in
\* [100, 180] (a column at -180 is returned, labelled 180); every returned
\* label is in [100, 180].
C3_NWPCrop ==
    (Cropped /\ box = <<100, 180, 0, 40>>)
        => /\ ds.lon360
           /\ Points(ds) = {p \in Points(var) :
                              /\ 0 <= p[2] /\ p[2] <= 40
                              /\ 100 <= (p[1] + 360) % 360
                              /\ (p[1] + 360) % 360 <= 180}
           /\ \A k \in 1..Len(ds.longitude) :
                 /\ 100 <= ds.longitude[k].lon /\ ds.longitude[k].lon <= 180
                 /\ ds.longitude[k].lon = (ds.longitude[k].cell + 360) % 360
           /\ \A j \in 1..Len(ds.latitude) :
                 0 <= ds.latitude[j] /\ ds.latitude[j] <= 40
C3_Witness ==
    /\ Cropped /\ box = <<100, 180, 0, 40>>
    /\ <<-180, 20>> \in Points(ds)
    /\ <<120, 20>> \in Points(ds)
    /\ <<50, 20>> \in Points(var)

\* C4: in both builders a basin id outside the seven ends the build in an
\* error before any file (index table, cluster CSV, year file, mask) is read,
\* and nothing is returned.
C4_UnknownBasin ==
    (Building /\ basin \notin BasinIds /\ pc # "start")
        => /\ pc = "error" /\ err = "ValueError"
           /\ reads = <<>>
           /\ ret = <<>>
C4_Witness ==
    call = "build_dataset_noTS" /\ basin = "XX" /\ pc = "error" /\ reads = <<>>

\* C5: with last_year < first_year the build fails at the calendar step: no
\* Calendar is produced, not even an empty one, and no later load step
\* (index, cluster, target) is executed.
C5_InvalidRange ==
    (Building /\ last_year < first_year /\ pc \notin {"start", "calendar"})
        => pc = "error" /\ reads = <<>>

\* the source table lacks the cell (year, month): no row, or a short row
CellLacking(data, y, m) == y \notin DOMAIN data \/ m > Len(data[y])

\* C6: for every requested climate index and every Calendar timestamp, if
\* the source table lacks the (year, month) cell (no row for the year, or a
\* row without the month cell), the build ends in an error: no missing value
\* is stored for the timestamp and it is not skipped.
C6_MissingCell ==
    \A name \in DOMAIN indexes_path :
       (\E k \in 1..Len(date_range) :
           CellLacking(indexes_path[name], date_range[k].year, date_range[k].month))
         => pc = "error"

\* C7: for first_year <= last_year the Calendar has 12*(last-first+1)
\* entries, is strictly increasing with one entry per calendar month and no
\* gap, starts at January of first_year and ends at December of last_year.
C7_Calendar ==
    (CalendarBuilt /\ first_year <= last_year)
        => /\ Len(date_range) = 12 * (last_year - first_year + 1)
           /\ \A k \in 1..Len(date_range) :
                 date_range[k] = Timestamp(first_year + ((k - 1) \div 12),
                                           ((k - 1) % 12) + 1)
           /\ \A k \in 1..(Len(date_range) - 1) : Before(date_range[k], date_range[k + 1])
           /\ date_range[1] = Timestamp(first_year, 1)
           /\ date_range[Len(date_range)] = Timestamp(last_year, 12)
C7_Witness ==
    /\ call = "build_dataset_noTS" /\ CalendarBuilt /\ first_year < last_year
    /\ Len(date_range) = 24

\* C8 as stated: a Calendar timestamp the cluster sources lack has no row in
\* the merged FeatureTable, whose row count is then smaller than the
\* Calendar length.  (Stated for a timestamp that every cluster source
\* lacks, the case most favourable to the statement.)
C8_RowAbsent ==
    Merged => \A t \in Range(date_range) :
                 (\A v \in DOMAIN cluster_path : t \notin cluster_path[v])
                    => /\ t \notin Range(dataset.index)
                       /\ Len(dataset.index) < Len(date_range)

\* C8 amended: the cluster columns are merged with the index columns by an
\* outer join and the index columns have a row for every Calendar timestamp,
\* so the FeatureTable has exactly the Calendar's rows (row count = Calendar
\* length): a timestamp a cluster source lacks keeps its row, with a missing
\* value in that source's column, and a timestamp the source has holds the
\* source's value; source rows outside the Calendar never appear.
C8_RowsKept ==
    Merged => /\ Range(dataset.index) = Range(date_range)
              /\ Len(dataset.index) = Len(date_range)
              /\ \A v \in DOMAIN cluster_path : \A t \in Range(date_range) :
                    IF t \in cluster_path[v]
                    THEN ~IsNull(dataset, t, v) /\ dataset.cells[<<t, v>>] = ClusterVal(v, t)
                    ELSE IsNull(dataset, t, v)
              /\ \A p \in DOMAIN dataset.cells : p[1] \in Range(date_range)
C8_Witness ==
    /\ Merged /\ pc = "done"
    /\ \E t \in Range(date_range) :
          /\ \A v \in DOMAIN cluster_path : t \notin cluster_path[v]
          /\ t \in Range(dataset.index)
    /\ \E v \in DOMAIN cluster_path : \E t \in cluster_path[v] : t \notin Range(date_range)

\* C9: in build_dataset with deseasonalize = true, whatever detrend is, the
\* third returned series is the second (the original target) minus the
\* fourth (the seasonal component of the decomposition of that target) at
\* every Calendar timestamp, all three are indexed by exactly the Calendar,
\* and the first two returned values are those of raw mode.
C9_Deseasonalize ==
    (call = "build_dataset" /\ deseasonalize /\ pc = "done")
        => /\ Len(ret) = 4
           /\ DOMAIN ret[2] = Range(date_range)
           /\ DOMAIN ret[3] = Range(date_range)
           /\ DOMAIN ret[4] = Range(date_range)
           /\ \A t \in Range(date_range) :
                 /\ ret[3][t] = ret[2][t] - ret[4][t]
                 /\ ret[4][t] = StlSeasonal(stl, t)
           /\ ret[1] = dataset /\ ret[2] = target
C9_Witness ==
    /\ call = "build_dataset" /\ deseasonalize /\ detrend /\ pc = "done"
    /\ \E t \in Range(date_range) : ret[4][t] # 0 /\ ret[3][t] # ret[2][t]
    /\ \E t \in Range(date_range) : StlTrend(stl, t) # StlSeasonal(stl, t)

\* the bounding boxes of section 4.2
C10_Box(b) ==
    CASE b = "NWP" -> <<100, 180, 0, 40>>
      [] b = "NEP" -> <<-180, -75, 0, 40>>
      [] b = "NA"  -> <<-100, 0, 0, 40>>
      [] b = "NI"  -> <<45, 100, 0, 40>>
      [] b = "SP"  -> <<135, -70, -40, 0>>
      [] b = "SI"  -> <<35, 135, -40, 0>>
      [] b = "GLB" -> <<-181, 181, -40, 40>>

\* C10: in both builders the target field is, before the spatial sum,
\* cropped to the basin's box and filtered to the cells where the mask is 1
\* for NEP and NA; cropped, with no mask read or applied, for NWP, NI, SP and
\* SI; neither cropped nor masked for GLB.  Both builders resolve a basin id
\* to the same box and the same rule.
C10_BasinRule ==
    TargetBuilt =>
      LET b       == C10_Box(basin)
          cropped == crop_field(var, b[1], b[2], b[3], b[4])
          masked  == <<"mask", basin>> \in Range(reads)
      IN /\ box = b
         /\ basin \in {"NEP", "NA"} =>
               /\ ds = cropped /\ masked
               /\ target = SpatialSum(Points(cropped) \cap mask, var.seed, date_range)
         /\ basin \in {"NWP", "NI", "SP", "SI"} =>
               /\ ds = cropped /\ ~masked
               /\ target = SpatialSum(Points(cropped), var.seed, date_range)
         /\ basin = "GLB" =>
               /\ ds = var /\ ~masked
               /\ target = SpatialSum(Points(var), var.seed, date_range)
C10_Witness ==
    /\ call = "build_dataset_noTS" /\ basin = "NA" /\ pc = "done"
    /\ <<"mask", "NA">> \in Range(reads)
    /\ Points(ds) \cap mask # Points(ds)
    /\ Points(ds) # Points(var)

====
